---- MODULE Spec2Model ----
(***************************************************************************)
(* Model of Rubic_Cube_2D.py: the six-face sticker grid, the quarter turn  *)
(* of a face (rotate_cube_face), scrambling, the solved check and reset.   *)
(* Lists are modelled as functions on 0..n-1 so that row and column        *)
(* indices are the ones the source uses.                                   *)
(***************************************************************************)
EXTENDS Integers, Sequences, FiniteSets, TLC

\* ---- bounds of the model
\* at most this many freely chosen turns since the cube was last created;
\* after them the user only undoes the turns made or repeats the last one
MaxMoves == 2
\* largest `moves` argument given to scramble_cube
MaxScramble == 2

\* cells of a grid given to is_solved that differ from its base pattern
MaxOdd == 1

\* ---- data
Faces == {"U", "D", "L", "R", "F", "B"}

\* names that are no face, as a caller could pass to rotate_cube_face
BadNames == {"X"}

Colors == {"W", "Y", "O", "R", "G", "B"}

Idx == 0 .. 2

STARTING_COLORS ==
    [f \in Faces |->
        CASE f = "U" -> "W"
          [] f = "D" -> "Y"
          [] f = "L" -> "O"
          [] f = "R" -> "R"
          [] f = "F" -> "G"
          [] f = "B" -> "B"]

make_solved_cube ==
    [f \in DOMAIN STARTING_COLORS |-> [r \in Idx |-> [c \in Idx |-> STARTING_COLORS[f]]]]

\* a cube whose 54 cells each carry the cell they start in: the same code
\* moves these labels, so `origin` tells where every sticker came from
HomeCube ==
    [f \in Faces |-> [r \in Idx |-> [c \in Idx |-> <<f, r, c>>]]]

\* ---- list helpers of Python used by the source
\* reversed(s) and s[::-1]
reversed(s) ==
    LET n == Cardinality(DOMAIN s) IN [i \in DOMAIN s |-> s[n - 1 - i]]

\* zip(*m): the i-th tuple collects the i-th element of every row
zip(m) ==
    [i \in Idx |-> [j \in DOMAIN m |-> m[j][i]]]

\* ---- rotate a 3x3 matrix
rotate_face_matrix_cw(face_mat) ==
    [i \in Idx |-> reversed(zip(face_mat)[i])]

rotate_face_matrix_ccw(face_mat) ==
    reversed(zip(reversed(face_mat)))

rotate_face_matrix(face_mat, clockwise) ==
    IF clockwise THEN rotate_face_matrix_cw(face_mat)
    ELSE rotate_face_matrix_ccw(face_mat)

\* ---- rows and columns
get_row(face, idx) == face[idx]

\* set_row replacing the middle row whatever the index
set_row_middle(face, idx, values) == [face EXCEPT ![1] = values]

\* set_row writing the row counted from the other side
set_row_mirrored(face, idx, values) == [face EXCEPT ![2 - idx] = values]

set_row(face, idx, values) == [face EXCEPT ![idx] = values]

get_col(face, idx) == [r \in Idx |-> face[r][idx]]

\* set_col writing the column counted from the other side
set_col_mirrored(face, idx, values) ==
    [r \in Idx |-> [face[r] EXCEPT ![2 - idx] = values[r]]]

set_col(face, idx, values) ==
    [r \in Idx |-> [face[r] EXCEPT ![idx] = values[r]]]

\* ---- the strips a turn moves: (adj_face, 'row'/'col', index, reverse_flag)
Strip(af, typ, idx, rev) == [af |-> af, typ |-> typ, idx |-> idx, rev |-> rev]

seq(face_name) ==
    CASE face_name = "U" ->
            << Strip("B", "row", 0, FALSE), Strip("R", "row", 0, FALSE),
               Strip("F", "row", 0, FALSE), Strip("L", "row", 0, FALSE) >>
      [] face_name = "D" ->
            << Strip("F", "row", 2, FALSE), Strip("R", "row", 2, FALSE),
               Strip("B", "row", 2, FALSE), Strip("L", "row", 2, FALSE) >>
      [] face_name = "F" ->
            << Strip("U", "row", 2, FALSE), Strip("R", "col", 0, TRUE),
               Strip("D", "row", 0, TRUE), Strip("L", "col", 2, FALSE) >>
      [] face_name = "B" ->
            << Strip("U", "row", 0, TRUE), Strip("L", "col", 0, TRUE),
               Strip("D", "row", 2, FALSE), Strip("R", "col", 2, FALSE) >>
      [] face_name = "L" ->
            << Strip("U", "col", 0, FALSE), Strip("F", "col", 0, FALSE),
               Strip("D", "col", 0, FALSE), Strip("B", "col", 2, TRUE) >>
      [] face_name = "R" ->
            << Strip("U", "col", 2, FALSE), Strip("B", "col", 0, TRUE),
               Strip("D", "col", 2, FALSE), Strip("F", "col", 2, FALSE) >>

\* read_part without the reversal of flagged strips
read_part_unreversed(cube, e) ==
    IF e.typ = "row" THEN get_row(cube[e.af], e.idx)
    ELSE get_col(cube[e.af], e.idx)

\* read one strip in its table direction
read_part(cube, e) ==
    LET p == IF e.typ = "row" THEN get_row(cube[e.af], e.idx)
             ELSE get_col(cube[e.af], e.idx)
    IN  IF e.rev THEN reversed(p) ELSE p

read_parts(cube, s) ==
    [i \in DOMAIN s |-> read_part(cube, s[i])]

\* shift_parts with the first part put in front instead of the last, so one
\* strip is written twice and one is lost
shift_parts_dup(parts, clockwise) ==
    LET n == Len(parts) IN
    IF clockwise THEN << parts[1] >> \o SubSeq(parts, 1, n - 1)
    ELSE SubSeq(parts, 2, n) \o << parts[n] >>

\* shift_parts with the two directions exchanged
shift_parts_swapped(parts, clockwise) ==
    LET n == Len(parts) IN
    IF clockwise THEN SubSeq(parts, 2, n) \o << parts[1] >>
    ELSE << parts[n] >> \o SubSeq(parts, 1, n - 1)

\* clockwise: shift right by one; else shift left by one
shift_parts(parts, clockwise) ==
    LET n == Len(parts) IN
    IF clockwise THEN << parts[n] >> \o SubSeq(parts, 1, n - 1)
    ELSE SubSeq(parts, 2, n) \o << parts[1] >>

\* write_part without the reversal of flagged strips
write_part_unreversed(cube, e, data) ==
    [cube EXCEPT ![e.af] =
        IF e.typ = "row" THEN set_row(cube[e.af], e.idx, data)
        ELSE set_col(cube[e.af], e.idx, data)]

write_part(cube, e, data) ==
    LET out == IF e.rev THEN reversed(data) ELSE data IN
    [cube EXCEPT ![e.af] =
        IF e.typ = "row" THEN set_row(cube[e.af], e.idx, out)
        ELSE set_col(cube[e.af], e.idx, out)]

\* the write-back loop, entries 1..n in order
RECURSIVE write_back(_, _, _, _)
write_back(cube, s, parts, n) ==
    IF n = 0 THEN cube
    ELSE write_part(write_back(cube, s, parts, n - 1), s[n], parts[n])

\* ---- outcomes of a call
Returned(cube) == [cube |-> cube, raised |-> FALSE]

\* an unknown name that reaches `return  # unknown face` instead of raising
SilentReturn(cube) == [cube |-> cube, raised |-> FALSE]

\* cube[face_name] with a key the dict does not have raises KeyError before
\* anything is assigned
KeyError(cube) == [cube |-> cube, raised |-> TRUE]

rotate_cube_face(cube, face_name, clockwise) ==
    IF face_name \notin DOMAIN cube THEN KeyError(cube)
    ELSE LET c1 == [cube EXCEPT ![face_name] =
                        rotate_face_matrix(cube[face_name], clockwise)]
         IN  IF face_name \notin Faces THEN Returned(c1)
             ELSE LET s == seq(face_name)
                      parts == shift_parts(read_parts(c1, s), clockwise)
                  IN  Returned(write_back(c1, s, parts, Len(s)))

\* is_solved returning True after the first face of the dict
is_solved_first_face(cube) ==
    LET col == cube["U"][0][0] IN
    \A r \in Idx : \A c \in Idx : cube["U"][r][c] = col

\* is_solved comparing with the starting colour of the face
is_solved_canonical(cube) ==
    \A f \in DOMAIN cube :
        \A r \in Idx : \A c \in Idx : cube[f][r][c] = STARTING_COLORS[f]

is_solved(cube) ==
    \A f \in DOMAIN cube :
        LET col == cube[f][0][0] IN
        \A r \in Idx : \A c \in Idx : cube[f][r][c] = col

\* ---- state
VARIABLES
    cube,     \* the session's cube: face -> 3x3 grid of colours
    origin,   \* the same cells, each holding the home cell of its sticker
    hist,     \* the completed turns since the cube was created, oldest first
    trail,    \* trail[i] is the cube after i-1 of those turns
    phase,    \* "play": any turn; "undo": replaying hist backwards, inverted;
              \* "quad": repeating the last turn
    mark,     \* how many turns of hist were made in phase "play"
    left,     \* turns the running scramble_cube call still has to make
    called,   \* the face_name of the last rotate_cube_face call, if any
    err,      \* the last rotate_cube_face call raised (nothing catches it)
    message,  \* main: the status line
    running,  \* main: the loop flag
    last,     \* the event handled last, with len(hist) when it arrived and the
              \* number of moves it asked of scramble_cube
    pend,     \* a rotate_cube_face call part-way through its writes, if any
    frame     \* what draw_cube_net read last (NoFrame before the first frame):
              \* a whole or a torn cube, and whether any turn had been made

\* the cube and its bookkeeping
core == << cube, origin, hist, trail, phase, mark, left, called, err >>

\* main's locals and the renderer
shell == << message, running, last, pend, frame >>

vars == << cube, origin, hist, trail, phase, mark, left, called, err,
           message, running, last, pend, frame >>

Move(f, cw) == [face |-> f, cw |-> cw]

\* `called` before any call
NoCall == "-"

\* `last` before any key event
NoKey == [ch |-> "", key |-> "none"]

\* `pend` outside a rotate_cube_face call
NoPend == [face |-> NoCall]

\* `frame` before the first draw_cube_net
NoFrame == [kind |-> "none", turned |-> FALSE]

Welcome == "Welcome! Press S to scramble."

ShellInit ==
    /\ message = Welcome
    /\ running = TRUE
    /\ last = [k |-> NoKey, from |-> 0, moves |-> 0]
    /\ pend = NoPend
    /\ frame = NoFrame

Inverse(m) == Move(m.face, ~m.cw)

Init ==
    /\ cube = make_solved_cube
    /\ origin = HomeCube
    /\ hist = << >>
    /\ trail = << make_solved_cube >>
    /\ phase = "play"
    /\ mark = 0
    /\ left = 0
    /\ called = NoCall
    /\ err = FALSE
    /\ ShellInit

\* one call rotate_cube_face(cube, face_name, clockwise) on the session's cube
Call(face_name, clockwise) ==
    LET res == rotate_cube_face(cube, face_name, clockwise) IN
    /\ cube' = res.cube
    /\ called' = face_name
    /\ err' = res.raised
    /\ IF res.raised
       THEN UNCHANGED << origin, hist, trail >>
       ELSE /\ origin' = rotate_cube_face(origin, face_name, clockwise).cube
            /\ hist' = Append(hist, Move(face_name, clockwise))
            /\ trail' = Append(trail, res.cube)

\* a key U/u, D/d, L/l, R/r, F/f, B/b, or a direct call with any name
Turn(face_name, clockwise) ==
    /\ ~err
    /\ left = 0
    /\ phase = "play"
    /\ Len(hist) < MaxMoves
    /\ Call(face_name, clockwise)
    /\ mark' = Len(hist')
    /\ UNCHANGED << phase, left >>
    /\ UNCHANGED shell

\* the key that undoes the latest turn of the play phase not yet undone
Undo ==
    /\ ~err
    /\ left = 0
    /\ phase \in {"play", "undo"}
    /\ Len(hist) < 2 * mark
    /\ LET m == Inverse(hist[2 * mark - Len(hist)]) IN Call(m.face, m.cw)
    /\ phase' = "undo"
    /\ UNCHANGED << mark, left >>
    /\ UNCHANGED shell

\* the key of the last turn of the play phase once more, up to a full circle
Again ==
    /\ ~err
    /\ left = 0
    /\ phase \in {"play", "quad"}
    /\ mark > 0
    /\ Len(hist) < mark + 3
    /\ Call(hist[mark].face, hist[mark].cw)
    /\ phase' = "quad"
    /\ UNCHANGED << mark, left >>
    /\ UNCHANGED shell

\* key S: scramble_cube(cube, moves) starts its loop
ScrambleBegin(moves) ==
    /\ ~err
    /\ left = 0
    /\ phase = "play"
    /\ Len(hist) + moves <= MaxMoves
    /\ left' = moves
    /\ UNCHANGED << cube, origin, hist, trail, phase, mark, called, err >>
    /\ UNCHANGED shell

\* one pass of the loop: a random face, a random direction, one turn
ScrambleStep(f, cw) ==
    /\ left > 0
    /\ Call(f, cw)
    /\ mark' = Len(hist')
    /\ left' = left - 1
    /\ UNCHANGED phase
    /\ UNCHANGED shell

\* key Space: cube = make_solved_cube()
Reset ==
    /\ ~err
    /\ left = 0
    /\ cube' = make_solved_cube
    /\ origin' = HomeCube
    /\ hist' = << >>
    /\ trail' = << make_solved_cube >>
    /\ phase' = "play"
    /\ mark' = 0
    /\ called' = NoCall
    /\ UNCHANGED << left, err >>
    /\ UNCHANGED shell

Next ==
    \/ \E n \in Faces \cup BadNames : \E cw \in BOOLEAN : Turn(n, cw)
    \/ Undo
    \/ Again
    \/ \E m \in 0 .. MaxScramble : ScrambleBegin(m)
    \/ \E f \in Faces : \E cw \in BOOLEAN : ScrambleStep(f, cw)
    \/ Reset

Spec == Init /\ [][Next]_vars

\* ---- main: the event loop (lines 240-275), one key event per step
Lower(f) ==
    CASE f = "U" -> "u" [] f = "D" -> "d" [] f = "L" -> "l"
      [] f = "R" -> "r" [] f = "F" -> "f" [] f = "B" -> "b"

Key(ch, key) == [ch |-> ch, key |-> key]

\* KEYDOWN events: event.unicode and event.key
Keys ==
    {Key(f, Lower(f)) : f \in Faces} \cup {Key(Lower(f), Lower(f)) : f \in Faces}
    \cup { Key("S", "s"), Key("s", "s"), Key(" ", "space"),
           Key("C", "c"), Key("c", "c"), Key("Q", "q"), Key("q", "q"),
           Key("esc", "escape"), Key("x", "x"), Key("", "shift") }

Do(op, f, cw) == [op |-> op, face |-> f, cw |-> cw]

\* handler with the case of the letter read the wrong way round
handler_case_swapped(k) ==
    IF \E f \in Faces : k.ch \in {f, Lower(f)}
    THEN LET f == CHOOSE g \in Faces : k.ch \in {g, Lower(g)} IN Do("turn", f, k.ch # f)
    ELSE IF k.key = "s" THEN Do("scramble", NoCall, FALSE)
    ELSE IF k.key = "space" THEN Do("reset", NoCall, FALSE)
    ELSE IF k.key = "c" THEN Do("check", NoCall, FALSE)
    ELSE IF k.key \in {"escape", "q"} THEN Do("quit", NoCall, FALSE)
    ELSE Do("none", NoCall, FALSE)

\* handler taking K_c for K_SPACE
handler_check_resets(k) ==
    IF \E f \in Faces : k.ch \in {f, Lower(f)}
    THEN LET f == CHOOSE g \in Faces : k.ch \in {g, Lower(g)} IN Do("turn", f, k.ch = f)
    ELSE IF k.key = "s" THEN Do("scramble", NoCall, FALSE)
    ELSE IF k.key \in {"space", "c"} THEN Do("reset", NoCall, FALSE)
    ELSE IF k.key \in {"escape", "q"} THEN Do("quit", NoCall, FALSE)
    ELSE Do("none", NoCall, FALSE)

\* which branch of the if/elif chain a key event takes
handler(k) ==
    IF \E f \in Faces : k.ch \in {f, Lower(f)}
    THEN LET f == CHOOSE g \in Faces : k.ch \in {g, Lower(g)} IN Do("turn", f, k.ch = f)
    ELSE IF k.key = "s" THEN Do("scramble", NoCall, FALSE)
    ELSE IF k.key = "space" THEN Do("reset", NoCall, FALSE)
    ELSE IF k.key = "c" THEN Do("check", NoCall, FALSE)
    ELSE IF k.key \in {"escape", "q"} THEN Do("quit", NoCall, FALSE)
    ELSE Do("none", NoCall, FALSE)

Rotated(f, cw) == <<"Rotated", f, IF cw THEN "CW" ELSE "CCW">>

Event(k, moves) == [k |-> k, from |-> Len(hist), moves |-> moves]

\* the loop takes the next event: it is running and no call is under way
\* (events queued in the same batch behind a quit are not followed)
Idle ==
    /\ running
    /\ ~err
    /\ left = 0
    /\ pend = NoPend

\* keys U/u, D/d, L/l, R/r, F/f, B/b
FaceKey(k) ==
    /\ Idle
    /\ handler(k).op = "turn"
    /\ Len(hist) < MaxMoves
    /\ Call(handler(k).face, handler(k).cw)
    /\ message' = Rotated(handler(k).face, handler(k).cw)
    /\ last' = Event(k, 0)
    /\ mark' = Len(hist')
    /\ UNCHANGED << phase, left, running, pend, frame >>

\* a pass of the loop of scramble_cube that makes no turn
scramble_pass_skipped(cb, m) == cb

\* one pass of the loop of scramble_cube, with the face and direction drawn
scramble_pass(cb, m) == rotate_cube_face(cb, m.face, m.cw).cube

\* scramble_cube(cube, moves) with the draws sq[1], ..., sq[moves]
RECURSIVE scramble_cube(_, _, _)
scramble_cube(cb, sq, moves) ==
    IF moves = 0 THEN cb
    ELSE scramble_pass(scramble_cube(cb, sq, moves - 1), sq[moves])

\* key S
ScrambleKey(k, moves) ==
    /\ Idle
    /\ handler(k).op = "scramble"
    /\ Len(hist) + moves <= MaxMoves
    /\ \E sq \in [1 .. moves -> {Move(f, cw) : f \in Faces, cw \in BOOLEAN}] :
         /\ cube' = scramble_cube(cube, sq, moves)
         /\ origin' = scramble_cube(origin, sq, moves)
         /\ hist' = hist \o sq
         /\ trail' = trail \o [i \in 1 .. moves |-> scramble_cube(cube, sq, i)]
         /\ called' = IF moves = 0 THEN called ELSE sq[moves].face
    /\ message' = "Scrambled"
    /\ last' = Event(k, moves)
    /\ mark' = Len(hist')
    /\ UNCHANGED << phase, left, err, running, pend, frame >>

\* key Space that binds the new cube to a name of its own
SpaceKeyLocal(k) ==
    /\ Idle
    /\ handler(k).op = "reset"
    /\ message' = "Reset to solved"
    /\ last' = Event(k, 0)
    /\ UNCHANGED << cube, origin, hist, trail, phase, mark, called >>
    /\ UNCHANGED << left, err, running, pend, frame >>

\* key Space
SpaceKey(k) ==
    /\ Idle
    /\ handler(k).op = "reset"
    /\ cube' = make_solved_cube
    /\ origin' = HomeCube
    /\ hist' = << >>
    /\ trail' = << make_solved_cube >>
    /\ phase' = "play"
    /\ mark' = 0
    /\ called' = NoCall
    /\ message' = "Reset to solved"
    /\ last' = Event(k, 0)
    /\ UNCHANGED << left, err, running, pend, frame >>

\* key C
CheckKey(k) ==
    /\ Idle
    /\ handler(k).op = "check"
    /\ message' = IF is_solved(cube) THEN "Solved!" ELSE "Not solved yet."
    /\ last' = Event(k, 0)
    /\ UNCHANGED << core, running, pend, frame >>

\* keys Esc and Q
QuitKey(k) ==
    /\ Idle
    /\ handler(k).op = "quit"
    /\ running' = FALSE
    /\ last' = Event(k, 0)
    /\ UNCHANGED << core, message, pend, frame >>

\* any other key
OtherKey(k) ==
    /\ Idle
    /\ handler(k).op = "none"
    /\ last' = Event(k, 0)
    /\ UNCHANGED << core, message, running, pend, frame >>

\* the window is closed
QuitEvent ==
    /\ Idle
    /\ running' = FALSE
    /\ last' = Event(Key("", "QUIT"), 0)
    /\ UNCHANGED << core, message, pend, frame >>

NextShell ==
    \/ \E k \in Keys : FaceKey(k)
    \/ \E k \in Keys : \E moves \in 0 .. MaxScramble : ScrambleKey(k, moves)
    \/ \E k \in Keys : SpaceKey(k)
    \/ \E k \in Keys : CheckKey(k)
    \/ \E k \in Keys : QuitKey(k)
    \/ \E k \in Keys : OtherKey(k)
    \/ QuitEvent

SpecShell == Init /\ [][NextShell]_vars

\* ---- is_solved on grids that no sequence of turns need produce
\* a cube whose face f is all of colour cols[f]
UniformCube(cols) == [f \in Faces |-> [r \in Idx |-> [c \in Idx |-> cols[f]]]]

Bases ==
    {make_solved_cube}
    \cup {UniformCube([f \in Faces |-> col]) : col \in Colors}
    \cup {UniformCube([STARTING_COLORS EXCEPT !["U"] = "Y", !["D"] = "W"])}

\* the sets of at most n cells
RECURSIVE OddSets(_)
OddSets(n) ==
    IF n = 0 THEN {{}}
    ELSE OddSets(n - 1)
         \cup {s \cup {<<f, r, c>>} : s \in OddSets(n - 1), f \in Faces, r \in Idx, c \in Idx}

\* base with the cells of odd repainted in colour oc
Painted(base, odd, oc) ==
    [f \in Faces |-> [r \in Idx |-> [c \in Idx |->
        IF <<f, r, c>> \in odd THEN oc ELSE base[f][r][c]]]]

InitGrids ==
    /\ \E base \in Bases : \E odd \in OddSets(MaxOdd) : \E oc \in Colors :
         cube = Painted(base, odd, oc)
    /\ origin = HomeCube
    /\ hist = << >>
    /\ trail = << cube >>
    /\ phase = "play"
    /\ mark = 0
    /\ left = 0
    /\ called = NoCall
    /\ err = FALSE
    /\ ShellInit

NextGrids == \E k \in Keys : CheckKey(k)

SpecGrids == InitGrids /\ [][NextGrids]_vars

\* ---- main with rotate_cube_face taken one assignment at a time
\* rotate_cube_face up to the write-back loop: the face's own grid is
\* replaced, the four strips are read and shifted
Enter(f, cw) ==
    LET c1 == [cube EXCEPT ![f] = rotate_face_matrix(cube[f], cw)] IN
    /\ cube' = c1
    /\ called' = f
    /\ pend' = [face |-> f, cw |-> cw, i |-> 1,
                parts |-> shift_parts(read_parts(c1, seq(f)), cw)]

\* a face key: the handler enters rotate_cube_face
TurnKey(k) ==
    /\ Idle
    /\ handler(k).op = "turn"
    /\ Len(hist) < MaxMoves
    /\ Enter(handler(k).face, handler(k).cw)
    /\ last' = Event(k, 0)
    /\ UNCHANGED << origin, hist, trail, phase, mark, left, err >>
    /\ UNCHANGED << message, running, frame >>

\* key S: the handler enters scramble_cube
ScrambleEnter(k, moves) ==
    /\ Idle
    /\ handler(k).op = "scramble"
    /\ Len(hist) + moves <= MaxMoves
    /\ left' = moves
    /\ message' = IF moves = 0 THEN "Scrambled" ELSE message
    /\ last' = Event(k, moves)
    /\ UNCHANGED << cube, origin, hist, trail, phase, mark, called, err >>
    /\ UNCHANGED << running, pend, frame >>

\* a pass of the loop of scramble_cube enters rotate_cube_face
ScramblePass(f, cw) ==
    /\ left > 0
    /\ pend = NoPend
    /\ Enter(f, cw)
    /\ UNCHANGED << origin, hist, trail, phase, mark, left, err >>
    /\ UNCHANGED << message, running, last, frame >>

\* one pass of the write-back loop; after the last one the call returns and
\* the handler, or scramble_cube and then the handler, goes on
WriteStrip ==
    /\ pend # NoPend
    /\ cube' = write_part(cube, seq(pend.face)[pend.i], pend.parts[pend.i])
    /\ IF pend.i < Len(seq(pend.face))
       THEN /\ pend' = [pend EXCEPT !.i = @ + 1]
            /\ UNCHANGED << origin, hist, trail, mark, left, message >>
       ELSE /\ pend' = NoPend
            /\ origin' = rotate_cube_face(origin, pend.face, pend.cw).cube
            /\ hist' = Append(hist, Move(pend.face, pend.cw))
            /\ trail' = Append(trail, cube')
            /\ mark' = Len(hist')
            /\ left' = IF left > 0 THEN left - 1 ELSE left
            /\ message' = IF left = 0 THEN Rotated(pend.face, pend.cw)
                          ELSE IF left = 1 THEN "Scrambled" ELSE message
    /\ UNCHANGED << phase, called, err, running, last, frame >>

\* what a frame shows: whole when the cube is the result of the completed
\* turns and no scramble is under way
Seen ==
    [kind |-> IF cube = trail[Len(hist) + 1] /\ left = 0 THEN "whole" ELSE "torn",
     turned |-> Len(hist) >= 1]

\* a renderer that runs whenever it likes, as a second thread would
DrawAnytime ==
    /\ running
    /\ frame' = Seen
    /\ UNCHANGED << core, message, running, last, pend >>

\* draw_cube_net at the top of the loop body, between batches of events
Draw ==
    /\ Idle
    /\ frame' = Seen
    /\ UNCHANGED << core, message, running, last, pend >>

NextFrames ==
    \/ Draw
    \/ \E k \in Keys : TurnKey(k)
    \/ \E k \in Keys : \E moves \in 0 .. MaxScramble : ScrambleEnter(k, moves)
    \/ \E f \in Faces : \E cw \in BOOLEAN : ScramblePass(f, cw)
    \/ WriteStrip
    \/ \E k \in Keys : SpaceKey(k)

SpecFrames == Init /\ [][NextFrames]_vars

TypeOK ==
    /\ cube \in [Faces -> [Idx -> [Idx -> Colors]]]
    /\ Len(trail) = Len(hist) + 1
    /\ phase \in {"play", "undo", "quad"}
    /\ mark \in 0 .. MaxMoves
    /\ left \in 0 .. MaxScramble
    /\ called \in Faces \cup BadNames \cup {NoCall}
    /\ err \in BOOLEAN

\* ---- what the claims speak about
Cells == Faces \X Idx \X Idx

At(cb, x) == cb[x[1]][x[2]][x[3]]

\* the cube before and after the latest completed turn
Before == trail[Len(hist)]

After == trail[Len(hist) + 1]

\* C1: inverse law. Whenever a clockwise turn of a face was followed at once
\* by the counterclockwise turn of the same face, the cube after the pair is
\* cell for cell the cube before it.
InverseLaw ==
    \A i \in 1 .. Len(hist) - 1 :
        (hist[i].cw /\ hist[i + 1] = Inverse(hist[i])) => trail[i + 2] = trail[i]

\* C2: scramble then undo. Once every turn made from the solved cube has been
\* undone, latest first, by the same face turned the other way, the cube is
\* the solved cube again.
ScrambleThenUndo ==
    (phase = "undo" /\ Len(hist) = 2 * mark) => cube = make_solved_cube

\* the 8 corner and 12 edge positions of the cube folded from the net
\* (U above F, row L-F-R-B, D below F)
Corners ==
    { << <<"U", 2, 2>>, <<"F", 0, 2>>, <<"R", 0, 0>> >>,
      << <<"U", 2, 0>>, <<"F", 0, 0>>, <<"L", 0, 2>> >>,
      << <<"U", 0, 2>>, <<"R", 0, 2>>, <<"B", 0, 0>> >>,
      << <<"U", 0, 0>>, <<"L", 0, 0>>, <<"B", 0, 2>> >>,
      << <<"D", 0, 2>>, <<"F", 2, 2>>, <<"R", 2, 0>> >>,
      << <<"D", 0, 0>>, <<"F", 2, 0>>, <<"L", 2, 2>> >>,
      << <<"D", 2, 2>>, <<"R", 2, 2>>, <<"B", 2, 0>> >>,
      << <<"D", 2, 0>>, <<"L", 2, 0>>, <<"B", 2, 2>> >> }

Edges ==
    { << <<"U", 2, 1>>, <<"F", 0, 1>> >>, << <<"U", 1, 2>>, <<"R", 0, 1>> >>,
      << <<"U", 1, 0>>, <<"L", 0, 1>> >>, << <<"U", 0, 1>>, <<"B", 0, 1>> >>,
      << <<"D", 0, 1>>, <<"F", 2, 1>> >>, << <<"D", 1, 2>>, <<"R", 2, 1>> >>,
      << <<"D", 1, 0>>, <<"L", 2, 1>> >>, << <<"D", 2, 1>>, <<"B", 2, 1>> >>,
      << <<"F", 1, 2>>, <<"R", 1, 0>> >>, << <<"F", 1, 0>>, <<"L", 1, 2>> >>,
      << <<"B", 1, 0>>, <<"R", 1, 2>> >>, << <<"B", 1, 2>>, <<"L", 1, 0>> >> }

OppositeColor(col) ==
    CASE col = "W" -> "Y" [] col = "Y" -> "W"
      [] col = "O" -> "R" [] col = "R" -> "O"
      [] col = "G" -> "B" [] col = "B" -> "G"

\* the stickers of one cubie: pairwise different colours, no opposite pair
Cubie(cb, pos) ==
    \A i \in DOMAIN pos : \A j \in DOMAIN pos :
        i # j => /\ At(cb, pos[i]) # At(cb, pos[j])
                 /\ At(cb, pos[i]) # OppositeColor(At(cb, pos[j]))

\* C3: the turn table reproduces the physical cube. In every state reached by
\* turns from the solved cube each corner position shows three pairwise
\* different colours with no opposite pair, and each edge position two
\* different, non-opposite colours.
CubiesStayTogether ==
    \A pos \in Corners \cup Edges : Cubie(cube, pos)

\* C4: quad round trip. Whenever the same face was turned clockwise four
\* times in a row, the cube after the fourth turn is cell for cell the cube
\* before the first.
QuadRoundTrip ==
    \A i \in 1 .. Len(hist) - 3 :
        (hist[i].cw /\ \A k \in 1 .. 3 : hist[i + k] = hist[i])
            => trail[i + 4] = trail[i]

\* four clockwise turns of one face have been made from a scrambled cube
QuadRoundTripWitness ==
    /\ phase = "quad"
    /\ mark >= 2
    /\ Len(hist) = mark + 3
    /\ hist[mark].cw
    /\ trail[mark] # make_solved_cube
    /\ cube = trail[mark]

Count(cb, col) == Cardinality({x \in Cells : At(cb, x) = col})

\* C5: sticker conservation. Every turn permutes the 54 cells: the 54 stickers
\* are all still on the cube, each in one cell, the latest turn left the
\* number of stickers of every colour as it was, and every reachable cube has
\* 6 faces of 3x3 colours with 9 stickers of each colour.
StickerConservation ==
    /\ cube \in [Faces -> [Idx -> [Idx -> Colors]]]
    /\ {At(origin, x) : x \in Cells} = Cells
    /\ \A x \in Cells : At(cube, x) = STARTING_COLORS[At(origin, x)[1]]
    /\ \A col \in Colors : Count(cube, col) = 9
    /\ Len(hist) >= 1 => \A col \in Colors : Count(After, col) = Count(Before, col)

\* a counterclockwise turn has been made on a cube that is not solved
StickerConservationWitness ==
    /\ Len(hist) >= 2
    /\ ~hist[Len(hist)].cw
    /\ ~is_solved(Before)
    /\ cube = After
    /\ cube # Before

OppositeFace(f) ==
    CASE f = "U" -> "D" [] f = "D" -> "U"
      [] f = "L" -> "R" [] f = "R" -> "L"
      [] f = "F" -> "B" [] f = "B" -> "F"

\* the 3 cells of a strip of the table
StripCells(e) ==
    IF e.typ = "row" THEN {<<e.af, e.idx, k>> : k \in Idx}
    ELSE {<<e.af, k, e.idx>> : k \in Idx}

\* the 9 cells of f and the 12 cells of the four strips listed for f
Touched(f) ==
    {x \in Cells : x[1] = f} \cup UNION {StripCells(seq(f)[i]) : i \in 1 .. 4}

\* C6: locality. The latest turn, of face f in either direction, changed no
\* cell outside the 9 cells of f and the 12 cells of the strips listed for f;
\* in particular the face opposite to f is as it was.
Locality ==
    Len(hist) >= 1 =>
        LET f == hist[Len(hist)].face IN
        /\ Cardinality(Touched(f)) = 21
        /\ \A x \in Cells \ Touched(f) : At(After, x) = At(Before, x)
        /\ After[OppositeFace(f)] = Before[OppositeFace(f)]

\* a turn has changed cells of a cube whose opposite face is not of one colour
LocalityWitness ==
    /\ Len(hist) >= 2
    /\ cube = After
    /\ LET f == hist[Len(hist)].face IN
       /\ \E x \in Touched(f) : At(After, x) # At(Before, x)
       /\ \E r \in Idx : \E c \in Idx :
            Before[OppositeFace(f)][r][c] # Before[OppositeFace(f)][0][0]

\* C7: rotate_face_matrix is a 90-degree rotation. The turned face's grid
\* after the latest turn has, for a clockwise turn, the value of (r,c) at
\* (c, 2-r), and for a counterclockwise turn the value of (r,c) at (2-c, r).
FaceGridRotated ==
    Len(hist) >= 1 =>
        LET m == hist[Len(hist)]
            old == Before[m.face]
            new == After[m.face]
        IN  \A r \in Idx : \A c \in Idx :
                IF m.cw THEN new[c][2 - r] = old[r][c]
                ELSE new[2 - c][r] = old[r][c]

\* C8: solved invariant. The cube as created is reported solved, and after
\* one clockwise turn of any face of the created cube it is reported not
\* solved.
SolvedInvariant ==
    /\ Len(hist) = 0 => is_solved(cube)
    /\ (Len(hist) = 1 /\ hist[1].cw) => ~is_solved(cube)

\* one clockwise turn of Down has been made on the created cube
SolvedInvariantWitness ==
    /\ hist = << Move("D", TRUE) >>
    /\ trail[1] = make_solved_cube
    /\ cube = trail[2]
    /\ ~err

Grid(r0, r1, r2) == [r \in Idx |-> IF r = 0 THEN r0 ELSE IF r = 1 THEN r1 ELSE r2]

Row(a, b, c) == Grid(a, b, c)

\* the solved cube after one clockwise Front turn, cell by cell
FrontTurned ==
    [f \in Faces |->
        CASE f = "U" -> Grid(Row("W", "W", "W"), Row("W", "W", "W"), Row("O", "O", "O"))
          [] f = "R" -> Grid(Row("W", "R", "R"), Row("W", "R", "R"), Row("W", "R", "R"))
          [] f = "D" -> Grid(Row("R", "R", "R"), Row("Y", "Y", "Y"), Row("Y", "Y", "Y"))
          [] f = "L" -> Grid(Row("O", "O", "Y"), Row("O", "O", "Y"), Row("O", "O", "Y"))
          [] f = "F" -> Grid(Row("G", "G", "G"), Row("G", "G", "G"), Row("G", "G", "G"))
          [] f = "B" -> Grid(Row("B", "B", "B"), Row("B", "B", "B"), Row("B", "B", "B"))]

\* C9: worked example. One clockwise Front turn of the solved cube gives
\* U row 2 = O, R column 0 = W, D row 0 = R, L column 2 = Y and every other
\* cell its solved colour.
WorkedExample ==
    hist = << Move("F", TRUE) >> => cube = FrontTurned

\* the clockwise Front turn of the solved cube has been made
WorkedExampleWitness ==
    /\ hist = << Move("F", TRUE) >>
    /\ trail[1] = make_solved_cube
    /\ called = "F"
    /\ cube # make_solved_cube

\* the latest turn is whole: the face's grid is turned and each of its four
\* strips holds what the strip before it (clockwise) or after it
\* (counterclockwise) in the table held
WholeTurn(old, new, m) ==
    LET s == seq(m.face) IN
    /\ new[m.face] = rotate_face_matrix(old[m.face], m.cw)
    /\ \A i \in 1 .. 4 :
        read_part(new, s[i]) =
            read_part(old, s[IF m.cw THEN ((i + 2) % 4) + 1 ELSE (i % 4) + 1])

StripValues(cb, e) ==
    [k \in Idx |->
        LET j == IF e.rev THEN 2 - k ELSE k IN
        IF e.typ = "row" THEN cb[e.af][e.idx][j] ELSE cb[e.af][j][e.idx]]

\* the strip before and after strip i in the cyclic order of the table
PredStrip(i) == IF i = 1 THEN 4 ELSE i - 1

SuccStrip(i) == IF i = 4 THEN 1 ELSE i + 1

\* C13: strip cycle. After the latest turn, with every strip read in its
\* table direction, strip i of the turned face's table holds what strip i-1
\* held before a clockwise turn and what strip i+1 held before a
\* counterclockwise turn (indices cyclic over the 4 entries).
StripCycle ==
    Len(hist) >= 1 =>
        LET m == hist[Len(hist)]
            s == seq(m.face)
        IN  \A i \in 1 .. 4 :
                StripValues(After, s[i]) =
                    StripValues(Before, s[IF m.cw THEN PredStrip(i) ELSE SuccStrip(i)])

\* a counterclockwise turn of a face with reversed strips has moved a strip
\* that does not read the same in both directions
StripCycleWitness ==
    /\ Len(hist) >= 2
    /\ ~hist[Len(hist)].cw
    /\ cube = After
    /\ LET s == seq(hist[Len(hist)].face) IN
       \E i \in 1 .. 4 :
          /\ s[i].rev
          /\ StripValues(After, s[i])[0] # StripValues(After, s[i])[2]
          /\ StripValues(After, s[i]) # StripValues(Before, s[i])

\* C14: in every reachable state the centre cell of every face holds that
\* face's own colour, and is_solved holds only of the cube make_solved_cube
\* gives.
SolvedOnlyWhenCanonical ==
    /\ \A f \in Faces : cube[f][1][1] = STARTING_COLORS[f]
    /\ is_solved(cube) => cube = make_solved_cube

\* turns have been made and the cube is reported solved again
SolvedOnlyWhenCanonicalWitness ==
    /\ Len(hist) >= 2
    /\ is_solved(cube)
    /\ ~is_solved(Before)

Twice(cb, f, d1, g, d2) ==
    rotate_cube_face(rotate_cube_face(cb, f, d1).cube, g, d2).cube

\* C19: turns of opposite faces commute. When the latest two turns were of
\* opposite faces, the cube is what the same two turns in the other order
\* give; and from the cube reached, turning the face turned last and its
\* opposite, in any directions, gives the same cube in either order.
OppositeFacesCommute ==
    /\ Len(hist) >= 2 =>
        LET m1 == hist[Len(hist) - 1]
            m2 == hist[Len(hist)]
        IN  m2.face = OppositeFace(m1.face) =>
                After = Twice(trail[Len(hist) - 1], m2.face, m2.cw, m1.face, m1.cw)
    /\ Len(hist) >= 1 =>
        LET f == hist[Len(hist)].face
            g == OppositeFace(f)
        IN  \A d1 \in BOOLEAN : \A d2 \in BOOLEAN :
                Twice(After, f, d1, g, d2) = Twice(After, g, d2, f, d1)

\* turns of two opposite faces have been made on a cube that is not solved,
\* and have changed it
OppositeFacesCommuteWitness ==
    /\ Len(hist) >= 4
    /\ hist[Len(hist)].face = OppositeFace(hist[Len(hist) - 1].face)
    /\ ~is_solved(trail[Len(hist) - 1])
    /\ cube = After
    /\ After # trail[Len(hist) - 1]
\* ---- the event loop: what the last event did
FaceLetter(k) == \E f \in Faces : k.ch \in {f, Lower(f)}

Pressed(key) == ~FaceLetter(last.k) /\ last.k.key = key

\* the cube as it was when the last event arrived
Arrived == trail[last.from + 1]

\* C12: after the Space key the cube is the one make_solved_cube builds, every
\* cell of a face holding that face's starting colour, and is_solved holds of
\* it at once; the cube is always the result of the turns made since the last
\* reset, and an event that is no face key, S or Space leaves it as it was.
ResetRestores ==
    /\ Pressed("space") =>
         /\ cube = make_solved_cube
         /\ \A f \in Faces : \A r \in Idx : \A c \in Idx :
              cube[f][r][c] = STARTING_COLORS[f]
         /\ is_solved(cube)
         /\ message = "Reset to solved"
    /\ cube = trail[Len(hist) + 1]
    /\ \A i \in 1 .. Len(hist) :
         trail[i + 1] = rotate_cube_face(trail[i], hist[i].face, hist[i].cw).cube
    /\ trail[1] = make_solved_cube
    /\ ~(FaceLetter(last.k) \/ last.k.key \in {"s", "space"}) =>
         Len(hist) = last.from /\ cube = Arrived

ResetRestoresWitness ==
    /\ Pressed("space")
    /\ last.from >= 1
    /\ cube = make_solved_cube
    /\ message = "Reset to solved"

\* C15: the S key with move count n makes exactly n whole turns, each of one
\* of the six faces in one of the two directions; with n = 0 the cube is left
\* as it was.
ScrambleCount ==
    /\ Pressed("s") =>
         /\ Len(hist) = last.from + last.moves
         /\ \A i \in last.from + 1 .. Len(hist) :
              /\ hist[i].face \in Faces
              /\ hist[i].cw \in BOOLEAN
              /\ trail[i + 1] =
                   rotate_cube_face(trail[i], hist[i].face, hist[i].cw).cube
              /\ trail[i + 1] # trail[i]
         /\ cube = trail[Len(hist) + 1]
         /\ last.moves = 0 => cube = Arrived
         /\ message = "Scrambled"
    /\ scramble_cube(cube, << >>, 0) = cube

ScrambleCountWitness ==
    /\ Pressed("s")
    /\ last.moves >= 2
    /\ Len(hist) = last.from + last.moves
    /\ cube # Arrived

\* C17: an uppercase face letter makes exactly one clockwise turn of that
\* face and a lowercase one exactly one counterclockwise turn; S scrambles,
\* Space resets, Esc and Q end the loop; every other key leaves the 54
\* stickers as they were, and rotate_cube_face is never called with a name
\* that is not a face.
KeyDispatch ==
    /\ \A f \in Faces : \A cw \in BOOLEAN :
         last.k.ch = (IF cw THEN f ELSE Lower(f)) =>
           /\ Len(hist) = last.from + 1
           /\ hist[Len(hist)] = Move(f, cw)
           /\ cube = rotate_cube_face(Arrived, f, cw).cube
           /\ message = Rotated(f, cw)
    /\ Pressed("s") => Len(hist) = last.from + last.moves /\ message = "Scrambled"
    /\ Pressed("space") => cube = make_solved_cube /\ hist = << >>
    /\ Pressed("escape") \/ Pressed("q") => ~running
    /\ ~running => last.k.key \in {"escape", "q", "QUIT"}
    /\ ~(FaceLetter(last.k) \/ last.k.key \in {"s", "space"}) =>
         Len(hist) = last.from /\ cube = Arrived
    /\ called \in Faces \cup {NoCall}
    /\ ~err
    /\ \A i \in 1 .. Len(hist) : hist[i].face \in Faces

KeyDispatchWitness ==
    /\ last.k.ch = "r"
    /\ last.from >= 1
    /\ hist[Len(hist)] = Move("R", FALSE)
    /\ cube # Arrived

\* C18: the C key only reads the cube: all 54 stickers are after it what they
\* were when it was pressed, no turn is recorded, and the message is the
\* verdict of is_solved on that cube.
CheckReadOnly ==
    Pressed("c") =>
      /\ Len(hist) = last.from
      /\ cube = Arrived
      /\ \A x \in Cells : At(cube, x) = At(Arrived, x)
      /\ message = IF is_solved(cube) THEN "Solved!" ELSE "Not solved yet."

CheckReadOnlyWitness ==
    /\ Pressed("c")
    /\ last.from >= 1
    /\ message = "Not solved yet."
    /\ cube = Arrived

\* the colours on face f of cb
FaceColours(cb, f) == {cb[f][r][c] : r \in Idx, c \in Idx}

\* C11: for any 6x3x3 grid, reachable by turns or not, is_solved is true
\* exactly when every face shows a single colour, the one of its cell (0,0);
\* in particular a cube with all six faces white is reported solved.
SolvedIffUniform ==
    /\ is_solved(cube) <=>
         \A f \in Faces : FaceColours(cube, f) = {cube[f][0][0]}
    /\ Pressed("c") =>
         (message = "Solved!" <=> \A f \in Faces : Cardinality(FaceColours(cube, f)) = 1)
    /\ Pressed("c") =>
         (message = "Not solved yet." <=>
            \E f \in Faces : \E r \in Idx : \E c \in Idx : cube[f][r][c] # cube[f][0][0])
    /\ cube = UniformCube([f \in Faces |-> "W"]) => is_solved(cube)

SolvedIffUniformWitness ==
    /\ Pressed("c")
    /\ cube = UniformCube([f \in Faces |-> "W"])
    /\ cube # make_solved_cube
    /\ message = "Solved!"

\* C16: draw_cube_net never reads a cube part-way through a turn: every frame
\* shows the result of complete turns, complete scrambles or a reset; and the
\* assignments of rotate_cube_face, taken one at a time, add up to whole turns.
NoTornFrame ==
    /\ frame.kind # "torn"
    /\ pend = NoPend /\ left = 0 => cube = trail[Len(hist) + 1]
    /\ \A i \in 1 .. Len(hist) :
         trail[i + 1] = rotate_cube_face(trail[i], hist[i].face, hist[i].cw).cube

NoTornFrameWitness ==
    /\ frame.kind = "whole"
    /\ frame.turned
    /\ pend # NoPend
    /\ pend.i >= 2
    /\ cube # trail[Len(hist) + 1]

====
